---- MODULE Spec2Model ----
(***************************************************************************)
(* Gesture handling of the AR viewer (src/components/ARViewer.tsx, the     *)
(* ARSceneContent component with onTransformChange, lines 51-158): the     *)
(* pointer registry, the drag / pinch handlers, the render tick and the    *)
(* commit of the transform on release; the application's handling of a     *)
(* commit (src/App.tsx, handleSpatialUpdate) and the relaunch of the       *)
(* viewer on the stored transform; the scalar Kalman filter and the pose   *)
(* smoother (src/utils/kalman.ts).                                         *)
(*                                                                         *)
(* JavaScript numbers are modelled as exact rationals extended with NaN    *)
(* and the two infinities: [k |-> "num" | "nan" | "inf", n |-> numerator   *)
(* (or sign), d |-> denominator > 0].  Rounding of doubles is not          *)
(* modelled; division by zero, NaN propagation, Math.min / Math.max and    *)
(* the falsy test of `||` are.                                             *)
(***************************************************************************)
EXTENDS Integers, Sequences, FiniteSets, TLC

VARIABLES
    gestureControl,     \* experience.config.gestureControl
    autoRotate,         \* experience.config.autoRotate
    pointers,           \* pointers.current : Map<pointerId, Vector2>
    initialPinchDist,   \* initialPinchDist.current
    initialPinchScale,  \* initialPinchScale.current
    position,           \* rootRef.current.position
    scale,              \* rootRef.current.scale (x, y, z)
    rotationY,          \* rootRef.current.rotation.y, in steps of 0.005 rad
    rotationOffset,     \* rotationOffset (React state, radians)
    emitted,            \* what the last event handed to onTransformChange: <<>> or <<t>>
    pinches,            \* number of pinch baselines snapshotted so far
    scn,                \* progress of the down(1) down(2) up(1) up(2) scenario
    drag,               \* the single-pointer gesture in progress, if any
    onUpdate,           \* the onUpdate prop: "absent", "app" (handleSpatialUpdate)
                        \* or "throwing" (a callback that raises)
    stored,             \* experience.transform as the application holds it
    mounts,             \* number of relaunches of the viewer so far
    raised,             \* an error left the last event's handler
    left,               \* <<id>> when the last event was the leave of the only
                        \* registered contact, else <<>>
    filters,            \* PoseSmoother.pos / .rot : three KalmanFilter each
    fed,                \* per filter, the measurements passed to filter() so far
    outs,               \* per filter, the values filter() returned so far
    ests,               \* standalone KalmanFilter objects: <<>> or <<filter>>
    estHist,            \* per standalone filter, the (measurement, x, p, k) of
                        \* each filter() call so far
    ghostMode,          \* experience.config.ghostMode
    isTracking,         \* isTracking (React state of the smoothing viewer)
    camera,             \* getUserMedia: "requested", "streaming" or "denied"
    activeAnims,        \* activeAnims: the objects whose entry is true
    visible,            \* rootRef.current.visible of the smoothing viewer
    pose,               \* rootRef.current.position / .rotation of the
                        \* smoothing viewer
    staged,             \* the viewer mounted is the one with initStage
    statusProp,         \* the onTrackingStatusChange prop is passed
    sessions,           \* one record per mount of the viewer: its camera
                        \* request, stream, timers and React state
    reported,           \* the calls of onTrackingStatusChange so far
    experiences,        \* experiences (App state)
    active,             \* activeExperience (App state): <<>> or <<exp>>
    isLoaded,           \* isLoaded (App state)
    view,               \* view (App state): "dashboard" or "viewer"
    boot,               \* how far the App's first render has got, and the
                        \* list its load effect has queued for the re-render
    storage,            \* localStorage[STORAGE_KEY]
    wrote               \* the localStorage.setItem calls of the last event

\* the application's side of the viewer, and the pose smoother
host == <<onUpdate, stored, mounts>>
smoother == <<filters, fed, outs>>
\* the standalone filters, and the smoothing viewer around the pose smoother
bench == <<ests, estHist>>
\* the mounts of the staged viewer, and the application's project list
lifecycle == <<staged, statusProp, sessions, reported>>
store == <<experiences, active, isLoaded, view, boot, storage, wrote>>
tracker == <<ghostMode, isTracking, camera, activeAnims, visible, pose,
             staged, statusProp, sessions, reported,
             experiences, active, isLoaded, view, boot, storage, wrote>>

vars == <<gestureControl, autoRotate, pointers, initialPinchDist,
          initialPinchScale, position, scale, rotationY, rotationOffset,
          emitted, pinches, scn, drag, onUpdate, stored, mounts, raised,
          left, filters, fed, outs, ests, estHist, ghostMode, isTracking,
          camera, activeAnims, visible, pose, staged, statusProp, sessions,
          reported, experiences, active, isLoaded, view, boot, storage,
          wrote>>

----------------------------------------------------------------------------
(* Bounds of the model. *)

\* at most this many pinch baselines are snapshotted in one run
MaxPinches == 1
\* at most this many auto-rotate increments are applied in one run
MaxTicks == 1
\* at most this many relaunches of the viewer in one run
MaxMounts == 1
\* no filter is updated more than this many times in one run
\* (the exact rationals of a fourth update of one filter exceed 32 bits)
MaxUpdates == 2

\* pointer ids delivered by the browser
PointerIds == {1, 2, 3}
\* the two contacts of a pinch
IdA == CHOOSE i \in PointerIds : \A j \in PointerIds : i <= j
IdB == CHOOSE i \in PointerIds \ {IdA} : \A j \in PointerIds \ {IdA} : i <= j
PinchIds == {IdA, IdB}

\* client coordinates of the samples: three points of one vertical line,
\* pairwise distances 1, 2 and 3
Points == {<<1, 0>>, <<1, 2>>, <<1, 3>>}
\* size.width, size.height of the canvas
Viewport == [width |-> 2, height |-> 3]

\* "no entry" of the pointer map
NoPoint == <<-1, -1>>

----------------------------------------------------------------------------
(* JavaScript numbers. *)

Abs(i) == IF i < 0 THEN -i ELSE i

RECURSIVE GCD(_, _)
GCD(a, b) == IF b = 0 THEN a ELSE GCD(b, a % b)

NaN == [k |-> "nan", n |-> 0, d |-> 1]
PosInf == [k |-> "inf", n |-> 1, d |-> 1]
NegInf == [k |-> "inf", n |-> -1, d |-> 1]

\* the rational n/d, d # 0, in lowest terms with a positive denominator
Rat(n, d) ==
    LET g == GCD(Abs(n), Abs(d))
        s == IF d < 0 THEN -1 ELSE 1
    IN  [k |-> "num", n |-> (s * n) \div g, d |-> (s * d) \div g]

Num(i) == Rat(i, 1)

IsNaN(a) == a.k = "nan"
IsFinite(a) == a.k = "num"
Sign(a) == IF a.n > 0 THEN 1 ELSE IF a.n < 0 THEN -1 ELSE 0

\* an/ad < bn/bd for positive ad and bd, by integer parts and then the
\* reciprocals of the fractional parts (no product is formed)
RECURSIVE LessFrac(_, _, _, _)
LessFrac(an, ad, bn, bd) ==
    IF an \div ad # bn \div bd THEN an \div ad < bn \div bd
    ELSE IF an % ad = 0 THEN bn % bd > 0
    ELSE IF bn % bd = 0 THEN FALSE
    ELSE LessFrac(bd, bn % bd, ad, an % ad)

\* a < b and a <= b as JavaScript compares numbers (false when either is NaN)
Less(a, b) ==
    /\ ~IsNaN(a)
    /\ ~IsNaN(b)
    /\ IF a.k = "inf" THEN a.n < 0 /\ ~(b.k = "inf" /\ b.n < 0)
       ELSE IF b.k = "inf" THEN b.n > 0
       ELSE LessFrac(a.n, a.d, b.n, b.d)
Leq(a, b) == ~IsNaN(a) /\ ~IsNaN(b) /\ ~Less(b, a)

\* a / b on finite operands, the divisor being +0 when it is zero (common
\* factors are cancelled before the products are taken)
FDiv(a, b) ==
    IF ~IsFinite(a) \/ ~IsFinite(b) THEN NaN
    ELSE IF b.n = 0
         THEN IF a.n = 0 THEN NaN ELSE IF a.n > 0 THEN PosInf ELSE NegInf
         ELSE LET gn == GCD(Abs(a.n), Abs(b.n))
                  gd == GCD(a.d, b.d)
              IN  Rat((a.n \div gn) * (b.d \div gd), (a.d \div gd) * (b.n \div gn))

\* a * b
FMul(a, b) ==
    IF IsNaN(a) \/ IsNaN(b) THEN NaN
    ELSE IF ~IsFinite(a) \/ ~IsFinite(b)
         THEN IF Sign(a) * Sign(b) = 0 THEN NaN
              ELSE IF Sign(a) * Sign(b) > 0 THEN PosInf ELSE NegInf
         ELSE LET g1 == GCD(Abs(a.n), b.d)
                  g2 == GCD(Abs(b.n), a.d)
              IN  Rat((a.n \div g1) * (b.n \div g2), (a.d \div g2) * (b.d \div g1))

\* a - b (NaN for a NaN operand and for infinities of one sign)
FSub(a, b) ==
    IF IsNaN(a) \/ IsNaN(b) THEN NaN
    ELSE IF ~IsFinite(a) THEN IF ~IsFinite(b) /\ a.n = b.n THEN NaN ELSE a
    ELSE IF ~IsFinite(b) THEN IF b.n > 0 THEN NegInf ELSE PosInf
    ELSE Rat(a.n * b.d - b.n * a.d, a.d * b.d)

\* a + b, over the least common denominator (NaN for a NaN operand and for
\* infinities of opposite signs)
FAdd(a, b) ==
    IF IsNaN(a) \/ IsNaN(b) THEN NaN
    ELSE IF ~IsFinite(a) THEN IF ~IsFinite(b) /\ a.n # b.n THEN NaN ELSE a
    ELSE IF ~IsFinite(b) THEN b
    ELSE LET g == GCD(a.d, b.d)
         IN  Rat(a.n * (b.d \div g) + b.n * (a.d \div g), (a.d \div g) * b.d)

\* Math.min(a, b), Math.max(a, b): NaN when either argument is NaN
MathMin(a, b) == IF IsNaN(a) \/ IsNaN(b) THEN NaN ELSE IF Less(b, a) THEN b ELSE a
MathMax(a, b) == IF IsNaN(a) \/ IsNaN(b) THEN NaN ELSE IF Less(a, b) THEN b ELSE a

\* v || 1: the right operand when v is falsy (0 or NaN)
OrOne(v) == IF IsNaN(v) \/ (IsFinite(v) /\ v.n = 0) THEN Num(1) ELSE v

\* THREE.MathUtils.radToDeg, with pi taken as 355/113
RadToDeg(r) == FMul(r, Rat(180 * 113, 355))

----------------------------------------------------------------------------
(* Geometry. *)

\* the clamp of the pinch scale
MinScale == Rat(5, 100)
MaxScale == Num(20)

\* the integer square root of a perfect square
ISqrt(m) == CHOOSE r \in 0..m : r * r = m

\* Vector2.distanceTo
DistanceTo(p, q) ==
    Num(ISqrt((p[1] - q[1]) * (p[1] - q[1]) + (p[2] - q[2]) * (p[2] - q[2])))

\* the camera of the viewer: at (0, 4, 10), looking along -z, fov 45 degrees;
\* tan(fov / 2) = sqrt(2) - 1 is taken as 29/70
CameraY == Num(4)
CameraZ == Num(10)
TanHalfFov == Rat(29, 70)

\* normalised device coordinates of a client position
NdcX(pt) == FSub(FMul(FDiv(Num(pt[1]), Num(Viewport.width)), Num(2)), Num(1))
NdcY(pt) == FSub(Num(1), FMul(FDiv(Num(pt[2]), Num(Viewport.height)), Num(2)))

\* raycaster.setFromCamera + ray.intersectPlane(dragPlane): <<>> when the ray
\* misses the plane y = 0 (parallel to it, or the plane is behind the
\* origin), else <<the intersection point>>
Project(pt) ==
    LET dy == FMul(NdcY(pt), TanHalfFov)
        dx == FMul(FMul(NdcX(pt), FDiv(Num(Viewport.width), Num(Viewport.height))),
                   TanHalfFov)
        t == FDiv(FSub(Num(0), CameraY), dy)
    IN  IF dy.n = 0 \/ Less(t, Num(0)) THEN <<>>
        ELSE << <<FMul(t, dx), Num(0), FSub(CameraZ, t)>> >>

\* Project and DistanceTo at the sample positions, evaluated once
ProjectAt == [pt \in Points |-> Project(pt)]
DistanceAt == [p \in Points |-> [q \in Points |-> DistanceTo(p, q)]]

----------------------------------------------------------------------------
(* The pointer registry. *)

Active(ps) == {i \in PointerIds : ps[i] # NoPoint}
Size(ps) == Cardinality(Active(ps))

\* pts[0].distanceTo(pts[1]) for the two registered samples
PinchDistance(ps) ==
    LET a == CHOOSE i \in Active(ps) : TRUE
        b == CHOOSE i \in Active(ps) : i # a
    IN  DistanceAt[ps[a]][ps[b]]

\* the gesture state the handlers branch on
GestureState ==
    CASE Size(pointers) = 0 -> "Idle"
      [] Size(pointers) = 1 -> "Dragging"
      [] Size(pointers) = 2 -> "PinchTwisting"
      [] OTHER -> "Multi"

\* mutants of NewScale: the quotient inverted; the lower clamp dropped
NewScale_Inverted(s0, d0, dist) ==
    MathMax(MinScale, MathMin(MaxScale, FMul(s0, FDiv(d0, dist))))
NewScale_NoFloor(s0, d0, dist) ==
    MathMin(MaxScale, FMul(s0, FDiv(dist, d0)))

\* the scale a two-pointer move sets
NewScale(s0, d0, dist) ==
    MathMax(MinScale, MathMin(MaxScale, FMul(s0, FDiv(dist, d0))))

\* the transform handed to onTransformChange
CommitTransform ==
    [position |-> position,
     rotation |-> <<Num(0), RadToDeg(rotationOffset), Num(0)>>,
     scale |-> scale]

----------------------------------------------------------------------------
(* The scenario observer: how far the events so far follow                 *)
(* down(IdA) from Idle, down(IdB), up(IdA), up(IdB); moves of a registered *)
(* contact and render ticks do not interrupt it.                           *)

ScnNext(op, id) ==
    CASE op = "down" /\ id = IdA /\ Active(pointers) = {} -> 1
      [] op = "down" /\ id = IdB /\ scn = 1 -> 2
      [] op = "up" /\ id = IdA /\ scn = 2 -> 3
      [] op = "up" /\ id = IdB /\ scn = 3 -> 4
      [] op = "move" /\ scn \in 1..3 /\ id \in Active(pointers) -> scn
      [] op = "tick" /\ scn \in 1..3 -> scn
      [] OTHER -> 0

(* The drag observer: a gesture of one pointer, from its pointer-down on   *)
(* an empty registry to its pointer-up, with the position held when it     *)
(* began and the last projection of its moves that hit the plane.          *)

Origin == <<Num(0), Num(0), Num(0)>>
NoDrag == [on |-> FALSE, done |-> FALSE, id |-> 0, start |-> Origin, proj |-> <<>>]

DragNext(op, id, pt) ==
    CASE op = "down" /\ gestureControl /\ Active(pointers) = {} ->
            [on |-> TRUE, done |-> FALSE, id |-> id, start |-> position, proj |-> <<>>]
      [] op = "move" /\ drag.on /\ ~drag.done /\ id = drag.id ->
            [drag EXCEPT !.proj = IF ProjectAt[pt] = <<>> THEN @ ELSE ProjectAt[pt]]
      [] op = "up" /\ drag.on /\ ~drag.done /\ id = drag.id ->
            [drag EXCEPT !.done = TRUE]
      [] op = "tick" /\ drag.on /\ ~drag.done -> drag
      [] OTHER -> NoDrag

----------------------------------------------------------------------------
(* The scalar Kalman filter and the pose smoother (src/utils/kalman.ts).   *)

\* new KalmanFilter(processNoise, measurementNoise)
KalmanFilter(processNoise, measurementNoise) ==
    [q |-> processNoise, r |-> measurementNoise,
     p |-> Num(1), x |-> Num(0), k |-> Num(0)]

\* mutant of Filter: the gain is taken from the covariance before the
\* prediction step
Filter_NoPredict(f, measurement) ==
    LET k1 == FDiv(f.p, FAdd(f.p, f.r))
        x1 == FAdd(f.x, FMul(k1, FSub(measurement, f.x)))
        p2 == FMul(FSub(Num(1), k1), FAdd(f.p, f.q))
    IN  [f EXCEPT !.p = p2, !.k = k1, !.x = x1]

\* mutant of Filter: the covariance is multiplied by (1 - 2k)
Filter_Overshoot(f, measurement) ==
    LET p1 == FAdd(f.p, f.q)
        k1 == FDiv(p1, FAdd(p1, f.r))
        x1 == FAdd(f.x, FMul(k1, FSub(measurement, f.x)))
        p2 == FMul(FSub(Num(1), FMul(Num(2), k1)), p1)
    IN  [f EXCEPT !.p = p2, !.k = k1, !.x = x1]

\* mutant of Filter: the estimate does not move
Filter_Stuck(f, measurement) ==
    LET p1 == FAdd(f.p, f.q)
        k1 == FDiv(p1, FAdd(p1, f.r))
        p2 == FMul(FSub(Num(1), k1), p1)
    IN  [f EXCEPT !.p = p2, !.k = k1]

\* mutant of Filter: the estimate is moved by the gain of the call before
Filter_UsesOldGain(f, measurement) ==
    LET p1 == FAdd(f.p, f.q)
        k1 == FDiv(p1, FAdd(p1, f.r))
        x1 == FAdd(f.x, FMul(f.k, FSub(measurement, f.x)))
        p2 == FMul(FSub(Num(1), k1), p1)
    IN  [f EXCEPT !.p = p2, !.k = k1, !.x = x1]

\* mutant of Filter: the covariance keeps its predicted value
Filter_NoShrink(f, measurement) ==
    LET p1 == FAdd(f.p, f.q)
        k1 == FDiv(p1, FAdd(p1, f.r))
        x1 == FAdd(f.x, FMul(k1, FSub(measurement, f.x)))
    IN  [f EXCEPT !.p = p1, !.k = k1, !.x = x1]

\* filter(measurement): the filter afterwards; its x is the value returned
Filter(f, measurement) ==
    LET p1 == FAdd(f.p, f.q)
        k1 == FDiv(p1, FAdd(p1, f.r))
        x1 == FAdd(f.x, FMul(k1, FSub(measurement, f.x)))
        p2 == FMul(FSub(Num(1), k1), p1)
    IN  [f EXCEPT !.p = p2, !.k = k1, !.x = x1]

\* new PoseSmoother()
PoseSmoother ==
    [pos |-> [i \in 1..3 |-> KalmanFilter(Rat(5, 1000), Rat(5, 100))],
     rot |-> [i \in 1..3 |-> KalmanFilter(Rat(1, 100), Rat(1, 10))]]

\* the two banks of the smoother and the three axes of each
Banks == {"pos", "rot"}
Axes == 1..3
NothingFed == [b \in Banks |-> [i \in Axes |-> <<>>]]

\* raw pose components passed to the smoother
Measurements == {Num(1), Num(-2)}

\* the standalone filters of a run, none constructed yet
Estimators == {1, 2}
NoEstimators == [e \in Estimators |-> <<>>]

\* rootRef.current.position / .rotation of a group not yet touched
ZeroPose ==
    [position |-> <<Num(0), Num(0), Num(0)>>,
     rotation |-> <<Num(0), Num(0), Num(0)>>]

\* the scene objects of the experience and those animated on tap
Objects == {1, 2, 3}
TapObjects == {1, 2}

----------------------------------------------------------------------------
(* The state after mounting: the stored transform of a new experience      *)
(* (position 0, rotation 0, scale 1), no pointer registered.               *)

\* the transform of a new experience
DefaultTransform ==
    [position |-> Origin,
     rotation |-> <<Num(0), Num(0), Num(0)>>,
     scale |-> <<Num(1), Num(1), Num(1)>>]

\* no standalone filter constructed
InitBench ==
    /\ ests = NoEstimators
    /\ estHist = NoEstimators

\* a viewer just mounted: camera requested, nothing scheduled
NewSession ==
    [mounted |-> TRUE, camera |-> "requested", stream |-> "none",
     attached |-> FALSE, timers |-> {}, initStage |-> 0, isTracking |-> FALSE,
     cameraError |-> FALSE]

\* the staged viewer mounted once
InitLifecycle ==
    /\ sessions = <<NewSession>>
    /\ reported = <<>>

\* the application after its first render, nothing stored
InitStore ==
    /\ experiences = <<>>
    /\ active = <<>>
    /\ isLoaded = FALSE
    /\ view = "dashboard"
    /\ boot = [phase |-> "rendered", queued |-> <<>>]
    /\ wrote = <<>>

\* the smoothing viewer before its camera request is answered
InitTracker ==
    /\ isTracking = FALSE
    /\ camera = "requested"
    /\ activeAnims = {}
    /\ visible = TRUE
    /\ pose = ZeroPose

Init ==
    /\ gestureControl \in BOOLEAN
    /\ autoRotate \in BOOLEAN
    /\ pointers = [i \in PointerIds |-> NoPoint]
    /\ initialPinchDist = Num(0)
    /\ initialPinchScale = Num(1)
    /\ position = Origin
    /\ scale = <<Num(1), Num(1), Num(1)>>
    /\ rotationY = 0
    /\ rotationOffset = Num(0)
    /\ emitted = <<>>
    /\ pinches = 0
    /\ scn = 0
    /\ drag = NoDrag
    /\ onUpdate = "absent"
    /\ stored = DefaultTransform
    /\ mounts = 0
    /\ raised = FALSE
    /\ left = <<>>
    /\ filters = PoseSmoother
    /\ fed = NothingFed
    /\ outs = NothingFed
    /\ InitBench
    /\ ghostMode = TRUE
    /\ InitTracker
    /\ staged = TRUE
    /\ statusProp = TRUE
    /\ InitLifecycle
    /\ InitStore
    /\ storage = <<>>

config == <<gestureControl, autoRotate, rotationOffset>>

\* mutant of MoveIgnored: the flag is not consulted
MoveIgnored_Never == FALSE

\* the early returns of handlePointerDown and handlePointerMove (the handlers
\* hang on the group rootRef refers to, so rootRef.current is set)
DownIgnored == ~gestureControl
MoveIgnored == ~gestureControl

\* mutant of DragPosition: the scratch vector is copied even on a miss
DragPosition_CopyAlways(pt) ==
    IF ProjectAt[pt] = <<>> THEN Origin ELSE ProjectAt[pt][1]

\* the position a one-pointer move leaves: the intersection point when the
\* ray hits the drag plane, else the position as it was
DragPosition(pt) ==
    IF ProjectAt[pt] = <<>> THEN position ELSE ProjectAt[pt][1]

\* mutant of CommitsOn: every pointer-up commits
CommitsOn_Always(ps) == TRUE

\* mutant of CommitsOn: a pointer-up that leaves fewer than two pointers
\* commits
CommitsOn_BelowTwo(ps) == Size(ps) < 2

\* the condition under which handlePointerUp calls onTransformChange
CommitsOn(ps) == Size(ps) = 0

\* handlePointerDown
HandlePointerDown(id, pt) ==
    /\ emitted' = <<>>
    /\ scn' = ScnNext("down", id)
    /\ drag' = DragNext("down", id, pt)
    /\ raised' = FALSE
    /\ left' = <<>>
    /\ UNCHANGED <<config, position, scale, rotationY, host, smoother, bench, tracker>>
    /\ IF DownIgnored
       THEN UNCHANGED <<pointers, initialPinchDist, initialPinchScale, pinches>>
       ELSE /\ pointers' = [pointers EXCEPT ![id] = pt]
            /\ IF Size(pointers') = 2
               THEN /\ pinches < MaxPinches
                    /\ pinches' = pinches + 1
                    /\ initialPinchDist' = PinchDistance(pointers')
                    /\ initialPinchScale' = OrOne(scale[1])
               ELSE UNCHANGED <<initialPinchDist, initialPinchScale, pinches>>

\* handlePointerMove
HandlePointerMove(id, pt) ==
    /\ emitted' = <<>>
    /\ scn' = ScnNext("move", id)
    /\ drag' = DragNext("move", id, pt)
    /\ raised' = FALSE
    /\ left' = <<>>
    /\ UNCHANGED <<config, rotationY, initialPinchDist, initialPinchScale, pinches,
                   host, smoother, bench, tracker>>
    /\ IF MoveIgnored
       THEN UNCHANGED <<pointers, position, scale>>
       ELSE /\ pointers' = [pointers EXCEPT ![id] = pt]
            /\ IF Size(pointers') = 1
               THEN /\ position' = DragPosition(pt)
                    /\ UNCHANGED scale
               ELSE IF Size(pointers') = 2
               THEN /\ scale' = LET s == NewScale(initialPinchScale, initialPinchDist,
                                                   PinchDistance(pointers'))
                                IN  <<s, s, s>>
                    /\ UNCHANGED position
               ELSE UNCHANGED <<position, scale>>

\* mutant of Propagates: the call is wrapped in a try / catch
Propagates_Caught(threw) == FALSE

\* whether an error raised by the callback leaves handlePointerUp: the call
\* is the handler's last statement and sits in no try block
Propagates(threw) == threw

\* handleSpatialUpdate of the application: the committed transform replaces
\* the transform of the active experience
HandleSpatialUpdate(t) == IF onUpdate = "app" THEN t ELSE stored

\* handlePointerUp; the application's re-render passes the stored position
\* and scale back to the group
HandlePointerUp(id) ==
    /\ scn' = ScnNext("up", id)
    /\ drag' = DragNext("up", id, NoPoint)
    /\ pointers' = [pointers EXCEPT ![id] = NoPoint]
    /\ emitted' = IF CommitsOn(pointers') THEN <<CommitTransform>> ELSE <<>>
    /\ raised' = (CommitsOn(pointers') /\ Propagates(onUpdate = "throwing"))
    /\ stored' = IF CommitsOn(pointers') THEN HandleSpatialUpdate(CommitTransform)
                 ELSE stored
    /\ position' = IF stored' # stored THEN stored'.position ELSE position
    /\ scale' = IF stored' # stored THEN stored'.scale ELSE scale
    /\ left' = <<>>
    /\ UNCHANGED <<config, rotationY, initialPinchDist, initialPinchScale, pinches,
                   onUpdate, mounts, smoother, bench, tracker>>

\* mutant of Tick: a render tick abandons the gesture in progress
Tick_Timeout ==
    /\ emitted' = <<>>
    /\ IF autoRotate /\ Size(pointers) = 0
       THEN /\ rotationY < MaxTicks
            /\ rotationY' = rotationY + 1
       ELSE UNCHANGED rotationY
    /\ pointers' = [i \in PointerIds |-> NoPoint]
    /\ scn' = ScnNext("tick", 0)
    /\ drag' = DragNext("tick", 0, NoPoint)
    /\ raised' = FALSE
    /\ left' = <<>>
    /\ UNCHANGED <<config, position, scale, initialPinchDist,
                   initialPinchScale, pinches, host, smoother, bench, tracker>>

\* mutant of Tick: auto-rotation does not consult the pointer registry
Tick_RotatesAlways ==
    /\ emitted' = <<>>
    /\ IF autoRotate
       THEN /\ rotationY < MaxTicks
            /\ rotationY' = rotationY + 1
       ELSE UNCHANGED rotationY
    /\ scn' = ScnNext("tick", 0)
    /\ drag' = DragNext("tick", 0, NoPoint)
    /\ raised' = FALSE
    /\ left' = <<>>
    /\ UNCHANGED <<config, pointers, position, scale, initialPinchDist,
                   initialPinchScale, pinches, host, smoother, bench, tracker>>

\* the useFrame callback: auto-rotation while no pointer is registered
Tick ==
    /\ emitted' = <<>>
    /\ IF autoRotate /\ Size(pointers) = 0
       THEN /\ rotationY < MaxTicks
            /\ rotationY' = rotationY + 1
       ELSE UNCHANGED rotationY
    /\ scn' = ScnNext("tick", 0)
    /\ drag' = DragNext("tick", 0, NoPoint)
    /\ raised' = FALSE
    /\ left' = <<>>
    /\ UNCHANGED <<config, pointers, position, scale, initialPinchDist,
                   initialPinchScale, pinches, host, smoother, bench, tracker>>

\* the events of two contacts, in any order, and the render ticks
PointerDown == \E id \in PinchIds, pt \in Points : HandlePointerDown(id, pt)
PointerMove == \E id \in PinchIds, pt \in Points : HandlePointerMove(id, pt)
PointerUp == \E id \in PinchIds : HandlePointerUp(id)

Next == PointerDown \/ PointerMove \/ PointerUp \/ Tick

Spec == Init /\ [][Next]_vars

----------------------------------------------------------------------------
(* Three contacts, and contacts that end without a pointer-up.             *)

\* the variables of the viewer's scene component
viewer == <<gestureControl, autoRotate, pointers, initialPinchDist,
            initialPinchScale, position, scale, rotationY, rotationOffset,
            emitted, pinches, scn, drag, raised, left>>

\* a contact leaves the object or is cancelled: the group binds
\* onPointerDown, onPointerMove and onPointerUp only, so no handler runs
HandlePointerLeave(id) ==
    /\ left' = <<id>>
    /\ emitted' = <<>>
    /\ raised' = FALSE
    /\ scn' = ScnNext("leave", id)
    /\ drag' = DragNext("leave", id, NoPoint)
    /\ UNCHANGED <<config, pointers, position, scale, rotationY, initialPinchDist,
                   initialPinchScale, pinches, host, smoother, bench, tracker>>

TouchDown == \E id \in PointerIds, pt \in Points : HandlePointerDown(id, pt)
TouchMove == \E id \in PointerIds, pt \in Points : HandlePointerMove(id, pt)
TouchUp == \E id \in PointerIds : HandlePointerUp(id)
TouchLeave == \E id \in PointerIds : HandlePointerLeave(id)

InitMulti == Init /\ gestureControl /\ ~autoRotate
NextMulti == TouchDown \/ TouchMove \/ TouchUp \/ TouchLeave

SpecMulti == InitMulti /\ [][NextMulti]_vars

----------------------------------------------------------------------------
(* The viewer inside the application: commits are stored by                *)
(* handleSpatialUpdate, or handed to a callback that raises; the viewer    *)
(* is closed and launched again on the stored transform.                   *)

\* rotation.y of the experiences launched: 0, and 1.5708
StoredRotations == {Num(0), Rat(355, 226)}

InitApp ==
    /\ gestureControl = TRUE
    /\ autoRotate = FALSE
    /\ onUpdate \in {"app", "throwing"}
    /\ stored \in {[DefaultTransform EXCEPT !.rotation = <<Num(0), d, Num(0)>>] :
                      d \in StoredRotations}
    /\ pointers = [i \in PointerIds |-> NoPoint]
    /\ initialPinchDist = Num(0)
    /\ initialPinchScale = stored.scale[1]
    /\ position = stored.position
    /\ scale = stored.scale
    /\ rotationY = 0
    /\ rotationOffset = stored.rotation[2]
    /\ emitted = <<>>
    /\ pinches = 0
    /\ scn = 0
    /\ drag = NoDrag
    /\ mounts = 0
    /\ raised = FALSE
    /\ left = <<>>
    /\ filters = PoseSmoother
    /\ fed = NothingFed
    /\ outs = NothingFed
    /\ InitBench
    /\ ghostMode = TRUE
    /\ InitTracker
    /\ staged = TRUE
    /\ statusProp = TRUE
    /\ InitLifecycle
    /\ InitStore
    /\ storage = <<>>

\* the viewer is left and launched again (launchPreview): ARSceneContent
\* mounts on the stored transform
Launch ==
    /\ mounts < MaxMounts
    /\ mounts' = mounts + 1
    /\ pointers' = [i \in PointerIds |-> NoPoint]
    /\ initialPinchDist' = Num(0)
    /\ initialPinchScale' = stored.scale[1]
    /\ position' = stored.position
    /\ scale' = stored.scale
    /\ rotationY' = 0
    /\ rotationOffset' = stored.rotation[2]
    /\ emitted' = <<>>
    /\ raised' = FALSE
    /\ left' = <<>>
    /\ scn' = 0
    /\ drag' = NoDrag
    /\ UNCHANGED <<gestureControl, autoRotate, pinches, onUpdate, stored, smoother, bench,
                   tracker>>

\* the events of one contact
ContactDown == \E pt \in Points : HandlePointerDown(IdA, pt)
ContactMove == \E pt \in Points : HandlePointerMove(IdA, pt)
ContactUp == HandlePointerUp(IdA)

NextApp == ContactDown \/ ContactMove \/ ContactUp \/ Launch

SpecApp == InitApp /\ [][NextApp]_vars

----------------------------------------------------------------------------
(* The pose smoother fed with raw poses.                                   *)

\* mutant of SmoothPosition: the second estimator is given the first
\* component
SmoothPosition_Coupled(x, y, z) ==
    /\ Len(fed.pos[1]) + Len(fed.rot[1]) < MaxUpdates
    /\ filters' = [filters EXCEPT !.pos = <<Filter(filters.pos[1], x),
                                             Filter(filters.pos[2], x),
                                             Filter(filters.pos[3], z)>>]
    /\ fed' = [fed EXCEPT !.pos = <<Append(fed.pos[1], x), Append(fed.pos[2], y),
                                     Append(fed.pos[3], z)>>]
    /\ outs' = [outs EXCEPT !.pos = [i \in Axes |->
                                        Append(outs.pos[i], filters'.pos[i].x)]]
    /\ UNCHANGED <<viewer, host, bench, tracker>>

\* mutant of SmoothRotation: the call runs the translation estimators
SmoothRotation_Shared(x, y, z) ==
    /\ Len(fed.pos[1]) + Len(fed.rot[1]) < MaxUpdates
    /\ filters' = [filters EXCEPT !.pos = <<Filter(filters.pos[1], x),
                                             Filter(filters.pos[2], y),
                                             Filter(filters.pos[3], z)>>]
    /\ fed' = [fed EXCEPT !.rot = <<Append(fed.rot[1], x), Append(fed.rot[2], y),
                                     Append(fed.rot[3], z)>>]
    /\ outs' = [outs EXCEPT !.rot = [i \in Axes |->
                                        Append(outs.rot[i], filters'.pos[i].x)]]
    /\ UNCHANGED <<viewer, host, bench, tracker>>

\* smoothPosition(x, y, z)
SmoothPosition(x, y, z) ==
    /\ Len(fed.pos[1]) + Len(fed.rot[1]) < MaxUpdates
    /\ filters' = [filters EXCEPT !.pos = <<Filter(filters.pos[1], x),
                                             Filter(filters.pos[2], y),
                                             Filter(filters.pos[3], z)>>]
    /\ fed' = [fed EXCEPT !.pos = <<Append(fed.pos[1], x), Append(fed.pos[2], y),
                                     Append(fed.pos[3], z)>>]
    /\ outs' = [outs EXCEPT !.pos = [i \in Axes |->
                                        Append(outs.pos[i], filters'.pos[i].x)]]
    /\ UNCHANGED <<viewer, host, bench, tracker>>

\* smoothRotation(x, y, z)
SmoothRotation(x, y, z) ==
    /\ Len(fed.pos[1]) + Len(fed.rot[1]) < MaxUpdates
    /\ filters' = [filters EXCEPT !.rot = <<Filter(filters.rot[1], x),
                                             Filter(filters.rot[2], y),
                                             Filter(filters.rot[3], z)>>]
    /\ fed' = [fed EXCEPT !.rot = <<Append(fed.rot[1], x), Append(fed.rot[2], y),
                                     Append(fed.rot[3], z)>>]
    /\ outs' = [outs EXCEPT !.rot = [i \in Axes |->
                                        Append(outs.rot[i], filters'.rot[i].x)]]
    /\ UNCHANGED <<viewer, host, bench, tracker>>

SmoothPos == \E x, y, z \in Measurements : SmoothPosition(x, y, z)
SmoothRot == \E x, y, z \in Measurements : SmoothRotation(x, y, z)

InitKalman == Init /\ gestureControl /\ ~autoRotate
NextKalman == SmoothPos \/ SmoothRot

SpecKalman == InitKalman /\ [][NextKalman]_vars

----------------------------------------------------------------------------
(* Filters constructed and run on their own: new KalmanFilter(q, r) with   *)
(* the default noises, those of the pose smoother, larger ones, and        *)
(* non-positive ones; filter(m) with m = 0 or 1.                           *)

\* (processNoise, measurementNoise) of the filters constructed
Noises ==
    {<<Rat(1, 100), Rat(1, 10)>>, <<Rat(5, 1000), Rat(5, 100)>>,
     <<Num(1), Num(2)>>, <<Num(2), Num(2)>>,
     <<Num(0), Num(0)>>, <<Num(1), Num(-1)>>}

\* measurements given to the filters
Inputs == {Num(0), Num(1)}

\* e = new KalmanFilter(q, r)
NewEstimator(e, q, r) ==
    /\ ests[e] = <<>>
    /\ ests' = [ests EXCEPT ![e] = <<KalmanFilter(q, r)>>]
    /\ UNCHANGED <<estHist, viewer, host, smoother, tracker>>

\* e.filter(m)
EstimatorFilter(e, m) ==
    /\ ests[e] # <<>>
    /\ Len(estHist[e]) < MaxUpdates
    /\ LET f == Filter(ests[e][1], m)
       IN  /\ ests' = [ests EXCEPT ![e] = <<f>>]
           /\ estHist' = [estHist EXCEPT
                              ![e] = Append(@, [m |-> m, x |-> f.x, p |-> f.p,
                                                k |-> f.k])]
    /\ UNCHANGED <<viewer, host, smoother, tracker>>

Construct == \E e \in Estimators, n \in Noises : NewEstimator(e, n[1], n[2])
Measure == \E e \in Estimators, m \in Inputs : EstimatorFilter(e, m)

InitEstimator == Init /\ gestureControl /\ ~autoRotate
NextEstimator == Construct \/ Measure

SpecEstimator == InitEstimator /\ [][NextEstimator]_vars

----------------------------------------------------------------------------
(* The smoothing viewer: the camera request, the timer that reports the    *)
(* anchor found, taps on scene objects, and the render ticks that run the  *)
(* pose smoother.                                                          *)

\* getUserMedia resolves: the stream is attached and the discovery timer
\* is started
CameraGranted ==
    /\ camera = "requested"
    /\ camera' = "streaming"
    /\ UNCHANGED <<ghostMode, isTracking, activeAnims, visible, pose>>
    /\ UNCHANGED <<viewer, host, smoother, bench, lifecycle, store>>

\* getUserMedia rejects: cameraError is set
CameraDenied ==
    /\ camera = "requested"
    /\ camera' = "denied"
    /\ UNCHANGED <<ghostMode, isTracking, activeAnims, visible, pose>>
    /\ UNCHANGED <<viewer, host, smoother, bench, lifecycle, store>>

\* the discovery timer fires, two seconds after the stream was attached
TrackingFound ==
    /\ camera = "streaming"
    /\ ~isTracking
    /\ isTracking' = TRUE
    /\ UNCHANGED <<ghostMode, camera, activeAnims, visible, pose>>
    /\ UNCHANGED <<viewer, host, smoother, bench, lifecycle, store>>

\* handleEntityClick(obj)
HandleEntityClick(obj) ==
    /\ activeAnims' = IF obj \in TapObjects
                      THEN IF obj \in activeAnims THEN activeAnims \ {obj}
                                                  ELSE activeAnims \cup {obj}
                      ELSE activeAnims
    /\ UNCHANGED <<ghostMode, isTracking, camera, visible, pose>>
    /\ UNCHANGED <<viewer, host, smoother, bench, lifecycle, store>>

\* mutant of Smooths: the smoother runs on every render tick
Smooths_Always == TRUE

\* the condition under which a render tick runs the pose smoother
Smooths == isTracking

\* mutant of SmootherRef: every render tick works on a new PoseSmoother
SmootherRef_Fresh == PoseSmoother

\* poseSmootherRef.current, handed to the scene as its smoother
SmootherRef == filters

\* the useFrame callback of the smoothing viewer: smoothPosition(0, 0, 0)
\* and smoothRotation(0, 0, 0) while tracking, then visibility, then
\* auto-rotation
Frame ==
    LET pos1 == [i \in Axes |-> Filter(SmootherRef.pos[i], Num(0))]
        rot1 == [i \in Axes |-> Filter(SmootherRef.rot[i], Num(0))]
        rotation1 == IF Smooths THEN [i \in Axes |-> rot1[i].x]
                     ELSE pose.rotation
    IN  /\ Smooths => Len(fed.pos[1]) < MaxUpdates /\ Len(fed.rot[1]) < MaxUpdates
        /\ (~Smooths /\ autoRotate) => Less(pose.rotation[2], Rat(MaxTicks, 100))
        /\ filters' = IF Smooths THEN [pos |-> pos1, rot |-> rot1] ELSE filters
        /\ fed' = IF Smooths
                  THEN [b \in Banks |-> [i \in Axes |-> Append(fed[b][i], Num(0))]]
                  ELSE fed
        /\ outs' = IF Smooths
                   THEN [pos |-> [i \in Axes |-> Append(outs.pos[i], pos1[i].x)],
                         rot |-> [i \in Axes |-> Append(outs.rot[i], rot1[i].x)]]
                   ELSE outs
        /\ pose' = [position |-> IF Smooths THEN [i \in Axes |-> pos1[i].x]
                                 ELSE pose.position,
                    rotation |-> IF autoRotate
                                 THEN [rotation1 EXCEPT ![2] = FAdd(@, Rat(1, 100))]
                                 ELSE rotation1]
        /\ visible' = (isTracking \/ ghostMode)
        /\ UNCHANGED <<ghostMode, isTracking, camera, activeAnims>>
        /\ UNCHANGED <<viewer, host, bench, lifecycle, store>>

Tap == \E obj \in Objects : HandleEntityClick(obj)

InitTracking ==
    /\ gestureControl = TRUE
    /\ autoRotate \in BOOLEAN
    /\ pointers = [i \in PointerIds |-> NoPoint]
    /\ initialPinchDist = Num(0)
    /\ initialPinchScale = Num(1)
    /\ position = Origin
    /\ scale = <<Num(1), Num(1), Num(1)>>
    /\ rotationY = 0
    /\ rotationOffset = Num(0)
    /\ emitted = <<>>
    /\ pinches = 0
    /\ scn = 0
    /\ drag = NoDrag
    /\ onUpdate = "absent"
    /\ stored = DefaultTransform
    /\ mounts = 0
    /\ raised = FALSE
    /\ left = <<>>
    /\ filters = PoseSmoother
    /\ fed = NothingFed
    /\ outs = NothingFed
    /\ InitBench
    /\ ghostMode \in BOOLEAN
    /\ InitTracker
    /\ staged = TRUE
    /\ statusProp = TRUE
    /\ InitLifecycle
    /\ InitStore
    /\ storage = <<>>

NextTracking == CameraGranted \/ CameraDenied \/ TrackingFound \/ Tap \/ Frame

SpecTracking == InitTracking /\ [][NextTracking]_vars

----------------------------------------------------------------------------
(* The mounts of the viewer: the setup effect asks for the camera, and     *)
(* when the stream arrives attaches it and starts the timers of the        *)
(* simulated initialisation (stage 1 after 1.5 s and found after 4 s in    *)
(* the staged viewer, found after 3.5 s in the other); the cleanup of the  *)
(* effect runs at unmount. The application closes the viewer and launches  *)
(* it again.                                                               *)

Mounts == 1..Len(sessions)

\* the timers started once the stream has arrived
TimersOnStream == IF staged THEN {"stage1", "found"} ELSE {"found"}

\* mutant of TimersOnError: the found timer is started in the catch branch
TimersOnError_Found == {"found"}

\* the timers started when the camera request fails
TimersOnError == {}

\* mutant of FoundDue: the found timer may fire before the stage 1 timer
FoundDue_Unordered(t) == "found" \in t

\* the found timer is the next to fire: both timers are started together,
\* the stage 1 timer with the shorter delay
FoundDue(t) == "found" \in t /\ "stage1" \notin t

\* the timers left pending by the cleanup of the effect
TimersAfterCleanup(t) == t

\* the application launches the viewer (again)
Mount ==
    /\ \A g \in Mounts : ~sessions[g].mounted
    /\ Len(sessions) <= MaxMounts
    /\ sessions' = Append(sessions, NewSession)
    /\ UNCHANGED <<staged, statusProp, reported>>
    /\ UNCHANGED <<viewer, host, smoother, bench, store>>
    /\ UNCHANGED <<ghostMode, isTracking, camera, activeAnims, visible, pose>>

\* the viewer is closed: the cleanup of the setup effect stops the tracks
\* of the stream attached to the video element
Unmount(g) ==
    /\ sessions[g].mounted
    /\ sessions' = [sessions EXCEPT
                       ![g].mounted = FALSE,
                       ![g].stream = IF sessions[g].attached THEN "stopped" ELSE @,
                       ![g].timers = TimersAfterCleanup(@)]
    /\ UNCHANGED <<staged, statusProp, reported>>
    /\ UNCHANGED <<viewer, host, smoother, bench, store>>
    /\ UNCHANGED <<ghostMode, isTracking, camera, activeAnims, visible, pose>>

\* getUserMedia resolves: the stream is attached if the video element is
\* there, and the timers are started
StreamArrives(g) ==
    /\ sessions[g].camera = "requested"
    /\ sessions' = [sessions EXCEPT
                       ![g].camera = "streaming",
                       ![g].stream = "live",
                       ![g].attached = sessions[g].mounted,
                       ![g].timers = TimersOnStream]
    /\ UNCHANGED <<staged, statusProp, reported>>
    /\ UNCHANGED <<viewer, host, smoother, bench, store>>
    /\ UNCHANGED <<ghostMode, isTracking, camera, activeAnims, visible, pose>>

\* getUserMedia rejects: setCameraError (a state update of an unmounted
\* component has no effect)
StreamFails(g) ==
    /\ sessions[g].camera = "requested"
    /\ sessions' = [sessions EXCEPT
                       ![g].camera = "denied",
                       ![g].cameraError = sessions[g].mounted,
                       ![g].timers = TimersOnError]
    /\ UNCHANGED <<staged, statusProp, reported>>
    /\ UNCHANGED <<viewer, host, smoother, bench, store>>
    /\ UNCHANGED <<ghostMode, isTracking, camera, activeAnims, visible, pose>>

\* the stage 1 timer fires: setInitStage(1)
StageTimer(g) ==
    /\ "stage1" \in sessions[g].timers
    /\ sessions' = [sessions EXCEPT
                       ![g].timers = @ \ {"stage1"},
                       ![g].initStage = IF sessions[g].mounted THEN 1 ELSE @]
    /\ UNCHANGED <<staged, statusProp, reported>>
    /\ UNCHANGED <<viewer, host, smoother, bench, store>>
    /\ UNCHANGED <<ghostMode, isTracking, camera, activeAnims, visible, pose>>

\* the found timer fires: setInitStage(2) in the staged viewer,
\* setIsTracking(true), onTrackingStatusChange?.('found')
FoundTimer(g) ==
    /\ FoundDue(sessions[g].timers)
    /\ sessions' = [sessions EXCEPT
                       ![g].timers = @ \ {"found"},
                       ![g].initStage = IF sessions[g].mounted /\ staged THEN 2 ELSE @,
                       ![g].isTracking = IF sessions[g].mounted THEN TRUE ELSE @]
    /\ reported' = IF statusProp
                   THEN Append(reported, [status |-> "found", mount |-> g,
                                          mounted |-> sessions[g].mounted])
                   ELSE reported
    /\ UNCHANGED <<staged, statusProp>>
    /\ UNCHANGED <<viewer, host, smoother, bench, store>>
    /\ UNCHANGED <<ghostMode, isTracking, camera, activeAnims, visible, pose>>

Close == \E g \in Mounts : Unmount(g)
Granted == \E g \in Mounts : StreamArrives(g)
Refused == \E g \in Mounts : StreamFails(g)
Stage == \E g \in Mounts : StageTimer(g)
Found == \E g \in Mounts : FoundTimer(g)

InitMount ==
    /\ gestureControl = TRUE
    /\ autoRotate = FALSE
    /\ pointers = [i \in PointerIds |-> NoPoint]
    /\ initialPinchDist = Num(0)
    /\ initialPinchScale = Num(1)
    /\ position = Origin
    /\ scale = <<Num(1), Num(1), Num(1)>>
    /\ rotationY = 0
    /\ rotationOffset = Num(0)
    /\ emitted = <<>>
    /\ pinches = 0
    /\ scn = 0
    /\ drag = NoDrag
    /\ onUpdate = "absent"
    /\ stored = DefaultTransform
    /\ mounts = 0
    /\ raised = FALSE
    /\ left = <<>>
    /\ filters = PoseSmoother
    /\ fed = NothingFed
    /\ outs = NothingFed
    /\ InitBench
    /\ ghostMode = TRUE
    /\ InitTracker
    /\ staged \in BOOLEAN
    /\ statusProp \in BOOLEAN
    /\ InitLifecycle
    /\ InitStore
    /\ storage = <<>>

NextMount == Mount \/ Close \/ Granted \/ Refused \/ Stage \/ Found

SpecMount == InitMount /\ [][NextMount]_vars

----------------------------------------------------------------------------
(* The application's project list: loaded from localStorage by the first   *)
(* effects, changed by the dashboard (save, delete, preview), by the hash  *)
(* of the address and by the commits of the viewer, and written back by    *)
(* the persist effect.                                                     *)

\* the ids of the experiences, and what else an experience holds
ExperienceIds == {1, 2}
Names == {"a", "b"}

\* a transform committed by a drag to the right
MovedTransform == [DefaultTransform EXCEPT !.position = <<Num(1), Num(0), Num(0)>>]
Transforms == {DefaultTransform, MovedTransform}

\* the experiences the dashboard can hand over
Drafts == [id : ExperienceIds, name : Names, transform : Transforms]

\* JSON.stringify of a number: a number that is not finite is written null
Null == [k |-> "null", n |-> 0, d |-> 1]
JsonNumber(a) == IF IsFinite(a) THEN a ELSE Null
JsonTriple(v) == <<JsonNumber(v[1]), JsonNumber(v[2]), JsonNumber(v[3])>>

\* JSON.stringify(experiences): the text of an array
Stringify(list) ==
    [kind |-> "array",
     items |-> [i \in 1..Len(list) |->
                  [id |-> list[i].id, name |-> list[i].name,
                   transform |-> [position |-> JsonTriple(list[i].transform.position),
                                  rotation |-> JsonTriple(list[i].transform.rotation),
                                  scale |-> JsonTriple(list[i].transform.scale)]]]]

\* nothing under STORAGE_KEY; a text JSON.parse rejects; the text of a value
\* that is no array
Absent == [kind |-> "absent", items |-> <<>>]
Corrupt == [kind |-> "corrupt", items |-> <<>>]
NotAnArray == [kind |-> "object", items |-> <<>>]

\* lists an earlier run of the application has written
SavedLists ==
    {<<>>,
     <<[id |-> 1, name |-> "a", transform |-> DefaultTransform]>>,
     <<[id |-> 2, name |-> "b", transform |-> MovedTransform],
       [id |-> 1, name |-> "a", transform |-> DefaultTransform]>>}

\* what localStorage holds when the application starts
Stored == {Absent, Corrupt, NotAnArray} \cup {Stringify(l) : l \in SavedLists}

\* the load effect: the list handed to setExperiences, or <<>> when
\* setExperiences is not called and the initial state stays
Loaded(saved) == IF saved.kind = "array" THEN saved.items ELSE <<>>

\* mutant of Persists: the persist effect writes without looking at isLoaded
Persists_Always(loaded) == TRUE

\* the persist effect writes only when the isLoaded of its render is true
Persists(loaded) == loaded

\* the setItem calls of a run of the persist effect whose render held list
\* and loaded
Persist(list, loaded) ==
    IF Persists(loaded) THEN <<[loaded |-> loaded, value |-> Stringify(list)]>>
    ELSE <<>>

\* localStorage after the calls
StorageAfter(calls, before) ==
    IF calls = <<>> THEN before ELSE calls[Len(calls)].value

\* findIndex(e => e.id === id): the first index holding the id, 0 for -1
FindIndex(list, id) ==
    IF \E i \in 1..Len(list) : list[i].id = id
    THEN CHOOSE i \in 1..Len(list) :
            list[i].id = id /\ \A j \in 1..(i - 1) : list[j].id # id
    ELSE 0

\* mutant of Upsert: the experience is always put in front
Upsert_Prepends(prev, exp) == <<exp>> \o prev

\* the updater of saveExperience
Upsert(prev, exp) ==
    IF FindIndex(prev, exp.id) > 0
    THEN [prev EXCEPT ![FindIndex(prev, exp.id)] = exp]
    ELSE <<exp>> \o prev

\* prev.filter(e => e.id !== id)
Without(prev, id) == SelectSeq(prev, LAMBDA e : e.id # id)

\* handleHash: the hash names an experience of the list (h its id), or is
\* no viewer hash (h = 0); the pair of activeExperience and view it leaves
HandleHash(list, h, act, vw) ==
    IF h # 0 /\ FindIndex(list, h) > 0
    THEN <<(<<list[FindIndex(list, h)]>>), "viewer">>
    ELSE <<act, "dashboard">>

\* the hash of the address: that of the experience shown in the viewer, and
\* no viewer hash on the dashboard
Hash == IF view = "viewer" THEN active[1].id ELSE 0

\* the effects of the first render: the load effect reads the storage and
\* queues setExperiences and setIsLoaded, the persist effect runs with the
\* isLoaded of the first render, the hash effect adds no listener
FirstEffects ==
    /\ boot.phase = "rendered"
    /\ boot' = [phase |-> "queued", queued |-> Loaded(storage)]
    /\ wrote' = Persist(experiences, isLoaded)
    /\ storage' = StorageAfter(wrote', storage)
    /\ UNCHANGED <<experiences, active, isLoaded, view>>
    /\ UNCHANGED <<viewer, host, smoother, bench, lifecycle>>
    /\ UNCHANGED <<ghostMode, isTracking, camera, activeAnims, visible, pose>>

\* the re-render with the queued state and its effects: the persist effect
\* runs again, the hash effect calls handleHash on the hash of the address
\* (link is the id a deep link names, 0 for none)
Rerender(link) ==
    /\ boot.phase = "queued"
    /\ boot' = [phase |-> "loaded", queued |-> <<>>]
    /\ experiences' = boot.queued
    /\ isLoaded' = TRUE
    /\ wrote' = Persist(experiences', isLoaded')
    /\ storage' = StorageAfter(wrote', storage)
    /\ active' = HandleHash(experiences', link, active, view)[1]
    /\ view' = HandleHash(experiences', link, active, view)[2]
    /\ UNCHANGED <<viewer, host, smoother, bench, lifecycle>>
    /\ UNCHANGED <<ghostMode, isTracking, camera, activeAnims, visible, pose>>

\* the list is replaced: the persist effect and the hash effect run again
SetExperiences(next, act) ==
    /\ experiences' = next
    /\ wrote' = Persist(experiences', isLoaded)
    /\ storage' = StorageAfter(wrote', storage)
    /\ active' = HandleHash(experiences', Hash, act, view)[1]
    /\ view' = HandleHash(experiences', Hash, act, view)[2]
    /\ UNCHANGED <<isLoaded, boot>>
    /\ UNCHANGED <<viewer, host, smoother, bench, lifecycle>>
    /\ UNCHANGED <<ghostMode, isTracking, camera, activeAnims, visible, pose>>

\* saveExperience, called by the dashboard
SaveExperience(exp) ==
    /\ isLoaded /\ view = "dashboard"
    /\ SetExperiences(Upsert(experiences, exp), active)

\* deleteExperience, called by the dashboard on a project of the list
DeleteExperience(id) ==
    /\ isLoaded /\ view = "dashboard"
    /\ FindIndex(experiences, id) > 0
    /\ SetExperiences(Without(experiences, id), active)

\* launchPreview, called by the dashboard, and the hashchange it causes
LaunchPreview(exp) ==
    /\ isLoaded /\ view = "dashboard"
    /\ active' = HandleHash(experiences, exp.id, <<exp>>, view)[1]
    /\ view' = HandleHash(experiences, exp.id, <<exp>>, view)[2]
    /\ wrote' = <<>>
    /\ UNCHANGED <<experiences, isLoaded, boot, storage>>
    /\ UNCHANGED <<viewer, host, smoother, bench, lifecycle>>
    /\ UNCHANGED <<ghostMode, isTracking, camera, activeAnims, visible, pose>>

\* the hash of the address changes (the exit button of the viewer, or an
\* address typed): handleHash
HashChange(h) ==
    /\ isLoaded
    /\ h # Hash
    /\ active' = HandleHash(experiences, h, active, view)[1]
    /\ view' = HandleHash(experiences, h, active, view)[2]
    /\ wrote' = <<>>
    /\ UNCHANGED <<experiences, isLoaded, boot, storage>>
    /\ UNCHANGED <<viewer, host, smoother, bench, lifecycle>>
    /\ UNCHANGED <<ghostMode, isTracking, camera, activeAnims, visible, pose>>

\* handleSpatialUpdate, called by the viewer with the committed transform
SpatialUpdate(t) ==
    /\ isLoaded /\ view = "viewer"
    /\ IF active # <<>>
       THEN SetExperiences(Upsert(experiences, [active[1] EXCEPT !.transform = t]),
                           <<[active[1] EXCEPT !.transform = t]>>)
       ELSE /\ wrote' = <<>>
            /\ UNCHANGED <<experiences, active, isLoaded, view, boot, storage>>
            /\ UNCHANGED <<viewer, host, smoother, bench, lifecycle>>
            /\ UNCHANGED <<ghostMode, isTracking, camera, activeAnims, visible, pose>>

\* the steps of the application
Load == \E link \in {0} \cup ExperienceIds : Rerender(link)
Save == \E exp \in Drafts : SaveExperience(exp)
Delete == \E id \in ExperienceIds : DeleteExperience(id)
Preview == \E exp \in Drafts : LaunchPreview(exp)
Navigate == \E h \in {0} \cup ExperienceIds : HashChange(h)
Commit == \E t \in Transforms : SpatialUpdate(t)

InitStoreApp ==
    /\ gestureControl = TRUE
    /\ autoRotate = FALSE
    /\ pointers = [i \in PointerIds |-> NoPoint]
    /\ initialPinchDist = Num(0)
    /\ initialPinchScale = Num(1)
    /\ position = Origin
    /\ scale = <<Num(1), Num(1), Num(1)>>
    /\ rotationY = 0
    /\ rotationOffset = Num(0)
    /\ emitted = <<>>
    /\ pinches = 0
    /\ scn = 0
    /\ drag = NoDrag
    /\ onUpdate = "app"
    /\ stored = DefaultTransform
    /\ mounts = 0
    /\ raised = FALSE
    /\ left = <<>>
    /\ filters = PoseSmoother
    /\ fed = NothingFed
    /\ outs = NothingFed
    /\ InitBench
    /\ ghostMode = TRUE
    /\ InitTracker
    /\ staged = TRUE
    /\ statusProp = TRUE
    /\ InitLifecycle
    /\ InitStore
    /\ storage \in Stored

NextStore == FirstEffects \/ Load \/ Save \/ Delete \/ Preview \/ Navigate \/ Commit

SpecStore == InitStoreApp /\ [][NextStore]_vars

----------------------------------------------------------------------------
(* Steps the properties speak about. *)

Empty == [i \in PointerIds |-> NoPoint]
InRange(v) == IsFinite(v) /\ Leq(MinScale, v) /\ Leq(v, MaxScale)

\* a pointer-move handled with two pointers registered (the sample it
\* brought is in the registry afterwards)
PinchMoveStep ==
    /\ gestureControl
    /\ Size(pointers') = 2
    /\ \E id \in Active(pointers') : HandlePointerMove(id, pointers'[id])

\* a pointer-down that brings the registry to two pointers
PinchBeginStep ==
    /\ gestureControl
    /\ Size(pointers') = 2
    /\ \E id \in Active(pointers') : HandlePointerDown(id, pointers'[id])

\* the distances between sample positions
Distances == {DistanceAt[p][q] : p, q \in Points}

----------------------------------------------------------------------------
\* C1: with gestures enabled, down(1), down(2), up(1), up(2) from Idle goes
\* through Dragging, PinchTwisting, Dragging, Idle; no event before the last
\* pointer-up commits, and the last one commits the live position and scale.
C1_Scenario ==
    gestureControl =>
        /\ scn = 1 => GestureState = "Dragging" /\ emitted = <<>>
        /\ scn = 2 => GestureState = "PinchTwisting" /\ emitted = <<>>
        /\ scn = 3 => GestureState = "Dragging" /\ emitted = <<>>
        /\ scn = 4 => /\ GestureState = "Idle"
                      /\ Len(emitted) = 1
                      /\ emitted[1].position = position
                      /\ emitted[1].scale = scale

C1_Witness ==
    /\ gestureControl
    /\ scn = 4
    /\ Len(emitted) = 1
    /\ emitted[1].position # Origin

\* C2: with gestures enabled, a commit is delivered by exactly the events
\* that take the pointer count from at least 1 to 0, and by no other event
\* (none while a gesture is active, none when no gesture preceded).
C2_CommitOncePerCycle ==
    [][gestureControl =>
          ((emitted' # <<>>) <=> (Size(pointers) >= 1 /\ Size(pointers') = 0))]_vars

\* C3: with gestures disabled, a pointer-down, pointer-move or pointer-up
\* leaves the state Idle and the registry, position, rotation and scale as
\* they were.
C3_DisabledIgnored ==
    [][(~gestureControl /\ (PointerDown \/ PointerMove \/ PointerUp)) =>
          /\ Size(pointers) = 0
          /\ Size(pointers') = 0
          /\ UNCHANGED <<pointers, position, scale, rotationY, rotationOffset>>]_vars

C3_Witness ==
    /\ ~gestureControl
    /\ scn = 1
    /\ pointers = Empty

\* C4: with gestures disabled no event delivers a commit.
C4_NoCommitWhenDisabled == ~gestureControl => emitted = <<>>

\* C5: the position committed at the release of a one-pointer gesture is the
\* last projection of its moves that hit the plane, or the position held
\* when the gesture began if none did.
C5_CommittedPosition ==
    drag.done =>
        /\ Len(emitted) = 1
        /\ emitted[1].position = IF drag.proj = <<>> THEN drag.start
                                  ELSE drag.proj[1]

C5_Witness ==
    /\ drag.done
    /\ drag.proj # <<>>
    /\ drag.start # Origin
    /\ Len(emitted) = 1
    /\ emitted[1].position # drag.start

\* C6: the scale a pointer-move sets during a pinch is finite and lies in
\* [MinScale, MaxScale], whatever the pinch's initial distance.
C6_ScaleInRange ==
    [][(PinchMoveStep /\ pinches > 0) => InRange(scale'[1])]_vars

\* C7: when the pinch began with coinciding pointers (initial distance 0), a
\* pointer-move leaves the live scale as it was, and finite.
C7_DegenerateUnchanged ==
    [][(PinchMoveStep /\ pinches > 0 /\ initialPinchDist = Num(0)) =>
          (scale' = scale /\ IsFinite(scale'[1]))]_vars

\* the clamp of s0 * d / d0 for finite s0, d and d0 # 0
ClampRef(s0, d0, d) ==
    LET raw == Rat(s0.n * d.n * d0.d, s0.d * d.d * d0.n)
    IN  IF Less(raw, MinScale) THEN MinScale
        ELSE IF Less(MaxScale, raw) THEN MaxScale ELSE raw

\* C8: a pointer-move during a pinch with non-zero initial distance sets the
\* scale, on all three axes, to clamp(initialScale * distance /
\* initialDistance, MinScale, MaxScale); the pointer-down that begins a pinch
\* snapshots the distance of the two pointers and the live scale (1 when the
\* live scale is not a number).
C8_PinchScale ==
    [][/\ (PinchMoveStep /\ initialPinchDist # Num(0)) =>
            LET c == ClampRef(initialPinchScale, initialPinchDist,
                              PinchDistance(pointers'))
            IN  scale' = <<c, c, c>>
       /\ PinchBeginStep =>
            /\ initialPinchDist' = PinchDistance(pointers')
            /\ initialPinchScale' = IF IsNaN(scale[1]) THEN Num(1) ELSE scale[1]]_vars

\* initial distance 2, initial scale 1, distance 3: scale 1.5
C8_Witness ==
    /\ Size(pointers) = 2
    /\ initialPinchDist = Num(2)
    /\ initialPinchScale = Num(1)
    /\ PinchDistance(pointers) = Num(3)
    /\ scale = <<Rat(3, 2), Rat(3, 2), Rat(3, 2)>>

\* C9: for a baseline with positive initial distance and scale, the scale a
\* move sets does not decrease when the inter-pointer distance grows.
C9_Monotone ==
    (Less(Num(0), initialPinchDist) /\ Less(Num(0), initialPinchScale)) =>
        \A d1, d2 \in Distances :
            Leq(d1, d2) =>
                Leq(NewScale(initialPinchScale, initialPinchDist, d1),
                    NewScale(initialPinchScale, initialPinchDist, d2))

C9_Witness ==
    /\ Size(pointers) = 2
    /\ initialPinchDist = Num(1)
    /\ PinchDistance(pointers) = Num(3)
    /\ scale[1] = FMul(initialPinchScale, Num(3))
    /\ Less(NewScale(initialPinchScale, initialPinchDist, Num(2)), scale[1])

\* atan2(dy, dx) of an axis-parallel vector, in steps of 0.005 rad
\* (a quarter turn is 314 steps)
Atan2Steps(dy, dx) ==
    IF dx = 0 THEN (IF dy > 0 THEN 314 ELSE IF dy < 0 THEN -314 ELSE 0)
    ELSE IF dx > 0 THEN 0 ELSE 628

\* the inter-pointer angle of the two registered samples
PinchAngle(ps) ==
    LET a == CHOOSE i \in Active(ps) : \A j \in Active(ps) : i <= j
        b == CHOOSE i \in Active(ps) : i # a
    IN  Atan2Steps(ps[b][2] - ps[a][2], ps[b][1] - ps[a][1])

\* the rotation of the object about y, in steps of 0.005 rad
LiveRotation == FSub(Num(rotationY), FMul(Num(-200), rotationOffset))

\* C10: a pointer-move during a pinch turns the object by minus the change
\* of the inter-pointer angle, so that the rotation stays at
\* initialRotation - (angle - initialAngle).
C10_Twist ==
    [][(/\ PinchMoveStep
        /\ pinches > 0
        /\ Size(pointers) = 2
        /\ PinchDistance(pointers) # Num(0)
        /\ PinchDistance(pointers') # Num(0)) =>
          LiveRotation' =
              FSub(LiveRotation, Num(PinchAngle(pointers') - PinchAngle(pointers)))]_vars

\* the rotation of the object about y, in degrees
LiveRotationDeg == RadToDeg(FMul(LiveRotation, Rat(5, 1000)))

\* C11: the transform committed when a gesture's last pointer goes up is the
\* live transform: the live position and scale, and on the three axes the
\* live rotation of the object in degrees.
C11_CommitIsLive ==
    (gestureControl /\ drag.done) =>
        /\ Len(emitted) = 1
        /\ emitted[1].position = position
        /\ emitted[1].scale = scale
        /\ emitted[1].rotation = <<Num(0), LiveRotationDeg, Num(0)>>

\* C12: committing is idempotent on an unchanged transform: of two
\* consecutive commits the second emits what the first did, and when the
\* viewer is launched again on a transform just committed and stored, a
\* commit without any movement emits that transform again.
C12_Idempotent ==
    [][/\ (emitted # <<>> /\ emitted' # <<>>) => emitted' = emitted
       /\ (Launch /\ onUpdate = "app" /\ emitted # <<>>) =>
              (stored = emitted[1] /\ CommitTransform' = emitted[1])]_vars

\* C13: after every pointer event the number of registered pointers is 0, 1
\* or 2, and no event changes it by more than one.
C13_CountEdges ==
    [][/\ Size(pointers') \in {0, 1, 2}
       /\ Size(pointers') - Size(pointers) \in {-1, 0, 1}]_vars

\* C14: a pointer-move for an id that is not registered adds nothing to the
\* registry and leaves the pointer count, the gesture state and the live
\* transform as they were.
C14_UnknownMoveNoOp ==
    [][\A id \in PinchIds :
          (pointers[id] = NoPoint /\ \E pt \in Points : HandlePointerMove(id, pt)) =>
              UNCHANGED <<pointers, position, scale, rotationY, rotationOffset>>]_vars

\* C15: when the ray of a pointer-move of the only registered contact does
\* not hit the drag plane, the move raises no error and leaves the live
\* position, the live scale and the gesture state (one pointer registered)
\* as they were.
C15_MissNoUpdate ==
    [][\A id \in PinchIds :
          (/\ gestureControl
           /\ Active(pointers) = {id}
           /\ pointers'[id] # NoPoint
           /\ ProjectAt[pointers'[id]] = <<>>
           /\ HandlePointerMove(id, pointers'[id])) =>
              /\ UNCHANGED <<position, scale>>
              /\ Active(pointers') = {id}
              /\ ~raised']_vars

\* a drag whose move hit the plane and whose next move missed it
C15_Witness ==
    /\ gestureControl
    /\ drag.on
    /\ ~drag.done
    /\ drag.proj # <<>>
    /\ ProjectAt[pointers[drag.id]] = <<>>
    /\ position = drag.proj[1]
    /\ position # Origin

\* C16: an event that ends the only registered contact, a pointer-up or a
\* leave, brings the pointer count to 0 (state Idle) and commits the live
\* transform; in particular a contact that left is no longer registered.
C16_LastContactEnds ==
    [][\A id \in PointerIds :
          (/\ Active(pointers) = {id}
           /\ (HandlePointerUp(id) \/ HandlePointerLeave(id))) =>
              /\ Size(pointers') = 0
              /\ Len(emitted') = 1
              /\ emitted'[1].position = position
              /\ emitted'[1].scale = scale]_vars

\* C17: when the commit callback raises, the error leaves handlePointerUp
\* (it is not swallowed); an error leaves the handler only in that case, and
\* a pointer-up calls the callback at most once.
C17_ErrorPropagates ==
    /\ (onUpdate = "throwing" /\ emitted # <<>>) => raised
    /\ raised => (onUpdate = "throwing" /\ Len(emitted) = 1)
    /\ Len(emitted) <= 1

\* a drag released with a raising callback
C17_Witness ==
    /\ onUpdate = "throwing"
    /\ drag.done
    /\ raised
    /\ Len(emitted) = 1
    /\ emitted[1].position # Origin

\* the recurrence p = p + q; k = p / (p + r); x = x + k * (m - x);
\* p = (1 - k) * p over the measurements ms, from x = 0, p = 1
RECURSIVE Reference(_, _, _)
Reference(q, r, ms) ==
    IF ms = <<>> THEN [x |-> Num(0), p |-> Num(1)]
    ELSE LET before == Reference(q, r, SubSeq(ms, 1, Len(ms) - 1))
             m == ms[Len(ms)]
             p1 == FAdd(before.p, q)
             k == FDiv(p1, FAdd(p1, r))
         IN  [x |-> FAdd(before.x, FMul(k, FSub(m, before.x))),
              p |-> FMul(FSub(Num(1), k), p1)]

\* C18: every value a filter returned is the x of the reference recurrence
\* over the measurements it had been given up to then, and the filter's
\* state is the recurrence's state.
C18_Recurrence ==
    \A b \in Banks, i \in Axes :
        LET f == filters[b][i]
        IN  /\ Len(outs[b][i]) = Len(fed[b][i])
            /\ \A n \in 1..Len(fed[b][i]) :
                  outs[b][i][n] = Reference(f.q, f.r, SubSeq(fed[b][i], 1, n)).x
            /\ f.x = Reference(f.q, f.r, fed[b][i]).x
            /\ f.p = Reference(f.q, f.r, fed[b][i]).p

\* a filter given 1 and then -2
C18_Witness ==
    \E b \in Banks, i \in Axes :
        /\ fed[b][i] = <<Num(1), Num(-2)>>
        /\ Len(outs[b][i]) = 2
        /\ Less(outs[b][i][2], Num(0))
        /\ Less(Num(0), outs[b][i][1])

\* C19: a filter constructed with positive q and r has, after every update,
\* p >= 0 and 0 <= k <= 1.
C19_CovarianceAndGain ==
    \A b \in Banks, i \in Axes :
        LET f == filters[b][i]
        IN  (Less(Num(0), f.q) /\ Less(Num(0), f.r)) =>
                /\ Leq(Num(0), f.p)
                /\ Leq(Num(0), f.k)
                /\ Leq(f.k, Num(1))

\* a filter updated twice, its gain strictly between 0 and 1
C19_Witness ==
    \E b \in Banks, i \in Axes :
        /\ Len(fed[b][i]) = 2
        /\ Less(Num(0), filters[b][i].q)
        /\ Less(Num(0), filters[b][i].r)
        /\ Less(Num(0), filters[b][i].k)
        /\ Less(filters[b][i].k, Num(1))
        /\ Less(Num(0), filters[b][i].p)

\* every measurement of ms is 1
AllOnes(ms) == \A n \in 1..Len(ms) : ms[n] = Num(1)

\* C20: a filter with q = 0.01 and r = 0.1 given the measurement 1 again and
\* again returns strictly increasing values below 1 that approach 1 (each
\* update leaves at most r / (q + r) = 10/11 of the distance to 1); the
\* first value is 101/111, within 0.001 of 0.909.
C20_Convergence ==
    \A b \in Banks, i \in Axes :
        LET f == filters[b][i]
            o == outs[b][i]
        IN  (f.q = Rat(1, 100) /\ f.r = Rat(1, 10) /\ AllOnes(fed[b][i])) =>
                /\ \A n \in 1..Len(o) : Less(o[n], Num(1))
                /\ \A n \in 1..(Len(o) - 1) :
                      /\ Less(o[n], o[n + 1])
                      /\ Leq(FSub(Num(1), o[n + 1]),
                             FMul(FDiv(f.r, FAdd(f.q, f.r)), FSub(Num(1), o[n])))
                /\ Len(o) >= 1 =>
                      /\ o[1] = Rat(101, 111)
                      /\ Less(Rat(908, 1000), o[1])
                      /\ Less(o[1], Rat(910, 1000))

\* two updates with the measurement 1, the second value above the first
C20_Witness ==
    \E i \in Axes :
        /\ filters.rot[i].q = Rat(1, 100)
        /\ filters.rot[i].r = Rat(1, 10)
        /\ fed.rot[i] = <<Num(1), Num(1)>>
        /\ Less(outs.rot[i][1], outs.rot[i][2])
        /\ Less(outs.rot[i][2], Num(1))

----------------------------------------------------------------------------
(* The pinch baseline, the pointer-up that leaves one pointer, and render  *)
(* ticks during a gesture.                                                 *)

\* C25: every pointer-down and every pointer-up that brings the number of
\* registered pointers to two (from one, or from three) snapshots the pinch
\* baseline from the two pointers then registered and the live scale, so
\* that no pinch runs on the baseline of an earlier one.
C25_BaselineAtCountTwo ==
    [][(/\ gestureControl
        /\ Size(pointers) # 2
        /\ Size(pointers') = 2
        /\ \E id \in PointerIds :
              \/ HandlePointerUp(id)
              \/ \E pt \in Points : HandlePointerDown(id, pt)) =>
           /\ initialPinchDist' = PinchDistance(pointers')
           /\ initialPinchScale' = OrOne(scale'[1])]_vars

\* C26: a pointer-up that takes the registry from two pointers to one
\* leaves one pointer registered (state Dragging), hands nothing to
\* onTransformChange and leaves the live position, scale and rotation as
\* they were.
C26_UpToOnePointer ==
    [][(/\ Size(pointers) = 2
        /\ \E id \in Active(pointers) : HandlePointerUp(id)) =>
           /\ Size(pointers') = 1
           /\ emitted' = <<>>
           /\ ~raised'
           /\ UNCHANGED <<position, scale, rotationY, rotationOffset, stored>>]_vars

\* one contact of a pinch that changed the scale has been lifted: the other
\* is still registered, nothing was committed and the scale is the live one
C26_Witness ==
    /\ scn = 3
    /\ Size(pointers) = 1
    /\ emitted = <<>>
    /\ scale[1] # Num(1)
    /\ scale[1] # stored.scale[1]

\* C27: a render tick never changes the pointer registry, the gesture state
\* or the pinch baseline and never hands anything to onTransformChange, so
\* a gesture with a pointer held down stays where it is for any number of
\* ticks.
C27_TickKeepsGesture ==
    [][Tick =>
           /\ UNCHANGED <<pointers, initialPinchDist, initialPinchScale, pinches>>
           /\ UNCHANGED <<position, scale, stored>>
           /\ emitted' = <<>>]_vars

\* a pinch in progress in a run whose ticks have auto-rotated the object:
\* further ticks are possible and leave the state as it is
C27_Witness ==
    /\ autoRotate
    /\ rotationY > 0
    /\ Size(pointers) = 2
    /\ initialPinchDist = PinchDistance(pointers)
    /\ ENABLED Tick

----------------------------------------------------------------------------
(* The axes of the pose smoother.                                          *)

\* the values a filter on its own returns for the measurements ms, from the
\* state f0
RECURSIVE Alone(_, _)
Alone(f0, ms) ==
    IF ms = <<>> THEN <<>>
    ELSE LET f1 == Filter(f0, ms[1])
         IN  <<f1.x>> \o Alone(f1, Tail(ms))

\* C22: the outputs on an axis are those of a filter run on its own over
\* the raw inputs of that axis, whatever the other axes were given; two
\* axes of one bank that were given the same inputs have returned the same
\* outputs, although their neighbours were given different ones.
C22_NoCrossAxis ==
    \A b \in Banks, i \in Axes :
        /\ outs[b][i] = Alone(PoseSmoother[b][i], fed[b][i])
        /\ \A j \in Axes : fed[b][i] = fed[b][j] => outs[b][i] = outs[b][j]

\* two translation axes given the same two inputs while the third was
\* given different ones
C22_Witness ==
    /\ fed.pos[1] = <<Num(1), Num(-2)>>
    /\ fed.pos[2] = <<Num(-2), Num(1)>>
    /\ fed.pos[3] = fed.pos[1]
    /\ outs.pos[3] = outs.pos[1]
    /\ outs.pos[2] # outs.pos[1]

\* the last element of a non-empty sequence
Last(sq) == sq[Len(sq)]

\* C30: the smoother always holds three translation and three rotation
\* estimators; a smoothPosition call updates translation estimator i with
\* component i of its input and leaves the rotation estimators as they
\* were, and a smoothRotation call does the same with the banks exchanged.
C30_BanksApart ==
    [][/\ DOMAIN filters = Banks /\ DOMAIN filters' = Banks
       /\ \A b \in Banks : DOMAIN filters[b] = Axes /\ DOMAIN filters'[b] = Axes
       /\ \A b \in Banks :
             LET other == CHOOSE c \in Banks : c # b
             IN  Len(fed'[b][1]) > Len(fed[b][1]) =>
                     /\ \A i \in Axes :
                           /\ Len(fed'[b][i]) = Len(fed[b][i]) + 1
                           /\ filters'[b][i] =
                                  Filter(filters[b][i], Last(fed'[b][i]))
                           /\ Last(outs'[b][i]) = filters'[b][i].x
                     /\ filters'[other] = filters[other]
                     /\ fed'[other] = fed[other]
                     /\ outs'[other] = outs[other]]_vars

\* a smoothPosition call and then a smoothRotation call: the rotation
\* estimators moved, the translation estimators kept what the first call
\* gave them
C30_Witness ==
    /\ Len(fed.pos[1]) = 1
    /\ Len(fed.rot[1]) = 1
    /\ \A i \in Axes :
          /\ filters.pos[i] = Filter(PoseSmoother.pos[i], fed.pos[i][1])
          /\ filters.rot[i] = Filter(PoseSmoother.rot[i], fed.rot[i][1])
    /\ fed.pos[1] # fed.pos[2]
    /\ fed.rot[2] # fed.rot[3]

----------------------------------------------------------------------------
(* Filters on their own.                                                   *)

\* the standalone filters constructed so far
Built == {e \in Estimators : ests[e] # <<>>}

\* C21: no filter exists with q <= 0 or r <= 0 (the constructor rejects or
\* clamps such noises), hence no filter holds a NaN estimate or a gain
\* outside [0, 1].
C21_NoisesPositive ==
    \A e \in Built :
        LET f == ests[e][1]
        IN  /\ Less(Num(0), f.q)
            /\ Less(Num(0), f.r)
            /\ ~IsNaN(f.x)
            /\ Leq(Num(0), f.k)
            /\ Leq(f.k, Num(1))

\* x and p of a standalone filter before its n-th call and after it
Before(e, n) ==
    IF n = 1 THEN [x |-> Num(0), p |-> Num(1), k |-> Num(0)]
    ELSE [x |-> estHist[e][n - 1].x, p |-> estHist[e][n - 1].p,
          k |-> estHist[e][n - 1].k]
After(e, n) ==
    [x |-> estHist[e][n].x, p |-> estHist[e][n].p, k |-> estHist[e][n].k]

\* every call so far gave the filter the same measurement
ConstantInput(e) ==
    \A n \in 1..Len(estHist[e]) : estHist[e][n].m = estHist[e][1].m

\* under a constant input every call moves x towards the input without
\* passing it and leaves p positive and below its value before the call
Settles(e) ==
    \A n \in 1..Len(estHist[e]) :
        LET c == estHist[e][1].m
            b == Before(e, n)
            a == After(e, n)
        IN  /\ IF Leq(b.x, c) THEN Leq(b.x, a.x) /\ Leq(a.x, c)
                              ELSE Leq(c, a.x) /\ Leq(a.x, b.x)
            /\ Less(a.p, b.p)
            /\ Less(Num(0), a.p)

\* C23 as stated: for every positive q and r, under a constant input x
\* approaches the input without overshoot and p decreases strictly from
\* 1, staying positive.
C23_SettlesForPositiveNoise ==
    \A e \in Built :
        LET f == ests[e][1]
        IN  (Less(Num(0), f.q) /\ Less(Num(0), f.r) /\ ConstantInput(e)) =>
                Settles(e)

\* C23: for positive q and r with q * r < 1 + q (the steady-state
\* covariance is below the initial 1), under a constant input x approaches
\* the input without overshoot and p decreases strictly from 1, staying
\* positive.
C23_SettlesForSmallNoise ==
    \A e \in Built :
        LET f == ests[e][1]
        IN  (/\ Less(Num(0), f.q)
             /\ Less(Num(0), f.r)
             /\ Less(FMul(f.q, f.r), FAdd(Num(1), f.q))
             /\ ConstantInput(e)) =>
                Settles(e)

\* a filter with the default noises given 1 twice: x rose and stayed below
\* 1, p fell
C23_Witness ==
    \E e \in Built :
        /\ ests[e][1].q = Rat(1, 100)
        /\ ests[e][1].r = Rat(1, 10)
        /\ Len(estHist[e]) = 2
        /\ estHist[e][1].m = Num(1)
        /\ estHist[e][2].m = Num(1)
        /\ Less(estHist[e][1].x, estHist[e][2].x)
        /\ Less(estHist[e][2].x, Num(1))
        /\ Less(estHist[e][2].p, estHist[e][1].p)
        /\ Less(estHist[e][1].p, Num(1))

\* C24: two filter calls with the same q and r, the same x and p before
\* the call and the same measurement return the same value and leave the
\* same x, p and k, whatever else differs (the gain left by earlier calls,
\* the number of earlier calls, the other filter's state); this holds of
\* the calls made and of the calls the two filters can make next.
C24_Deterministic ==
    \A e1, e2 \in Built :
        LET f1 == ests[e1][1]
            f2 == ests[e2][1]
        IN  (f1.q = f2.q /\ f1.r = f2.r) =>
                /\ \A n1 \in 1..Len(estHist[e1]), n2 \in 1..Len(estHist[e2]) :
                      (/\ Before(e1, n1).x = Before(e2, n2).x
                       /\ Before(e1, n1).p = Before(e2, n2).p
                       /\ estHist[e1][n1].m = estHist[e2][n2].m) =>
                          After(e1, n1) = After(e2, n2)
                /\ (/\ f1.x = f2.x
                    /\ f1.p = f2.p
                    /\ Len(estHist[e1]) < MaxUpdates
                    /\ Len(estHist[e2]) < MaxUpdates) =>
                      \A m \in Inputs : Filter(f1, m) = Filter(f2, m)

\* two filters with q = 1 and r = 2: one was given 0 (which left x = 0,
\* p = 1 and the gain 1/2) and then 1, the other was given 1 at once (from
\* x = 0, p = 1 and the gain 0); both calls returned the same value
C24_Witness ==
    \E e1, e2 \in Built :
        /\ e1 # e2
        /\ ests[e1][1].q = ests[e2][1].q
        /\ ests[e1][1].r = ests[e2][1].r
        /\ Len(estHist[e1]) = 2
        /\ Len(estHist[e2]) = 1
        /\ estHist[e1][2].m = Num(1)
        /\ estHist[e2][1].m = Num(1)
        /\ Before(e1, 2).x = Before(e2, 1).x
        /\ Before(e1, 2).p = Before(e2, 1).p
        /\ Before(e1, 2).k # Before(e2, 1).k
        /\ estHist[e1][2].x = estHist[e2][1].x

----------------------------------------------------------------------------
(* The pose smoother inside the smoothing viewer.                          *)

\* the filter f0 after the measurements ms
RECURSIVE Run(_, _)
Run(f0, ms) == IF ms = <<>> THEN f0 ELSE Run(Filter(f0, ms[1]), Tail(ms))

\* C28: the estimators are never reset: in every state of the viewer,
\* before and after the tracking event and any number of render ticks,
\* each estimator holds what all of its updates since construction built
\* up from x = 0, p = 1, and an updated estimator is not back at x = 0,
\* p = 1.
C28_NeverReset ==
    \A b \in Banks, i \in Axes :
        /\ filters[b][i] = Run(PoseSmoother[b][i], fed[b][i])
        /\ fed[b][i] # <<>> =>
              ~(filters[b][i].x = Num(0) /\ filters[b][i].p = Num(1))

\* tracking was found and two render ticks ran the smoother: the
\* estimators hold the state of two updates, not that of one
C28_Witness ==
    /\ isTracking
    /\ camera = "streaming"
    /\ \A b \in Banks, i \in Axes :
          /\ Len(fed[b][i]) = 2
          /\ filters[b][i].p # Filter(PoseSmoother[b][i], Num(0)).p
          /\ Less(filters[b][i].p, Num(1))

\* C29: a render tick while isTracking is false does not run the smoother:
\* the six estimators, their inputs and outputs and the root position stay
\* as they were and the root rotation changes by the auto-rotation
\* increment only; an estimator, and the root position, change only in a
\* state with isTracking true.
C29_IdleWithoutTracking ==
    [][/\ (Frame /\ ~isTracking) =>
             /\ UNCHANGED <<filters, fed, outs>>
             /\ pose'.position = pose.position
             /\ pose'.rotation =
                    IF autoRotate
                    THEN [pose.rotation EXCEPT ![2] = FAdd(@, Rat(1, 100))]
                    ELSE pose.rotation
       /\ (filters' # filters \/ fed' # fed \/ outs' # outs) => isTracking]_vars

\* a render tick ran before tracking was found (it hid the root, ghost
\* mode being off, and auto-rotated it): no estimator has been updated
C29_Witness ==
    /\ ~isTracking
    /\ ~ghostMode
    /\ ~visible
    /\ autoRotate
    /\ pose.rotation[2] = Rat(1, 100)
    /\ pose.position = ZeroPose.position
    /\ filters = PoseSmoother
    /\ fed = NothingFed

----------------------------------------------------------------------------
(* Auto-rotation and the pointer registry.                                 *)

\* C31: the rotation of the object changes only by a render tick taken with
\* auto-rotate enabled and no pointer registered, and then by one
\* increment; a tick with a pointer registered, and every pointer event,
\* leaves the rotation as it was.
C31_AutoRotateOnlyIdle ==
    [][/\ rotationY' # rotationY =>
             /\ Tick
             /\ autoRotate
             /\ Size(pointers) = 0
             /\ rotationY' = rotationY + 1
       /\ (Tick /\ Size(pointers) >= 1) => rotationY' = rotationY]_vars

\* a tick rotated the idle object by one increment, then a pointer came
\* down: ticks are possible during the drag and the rotation stands
C31_Witness ==
    /\ autoRotate
    /\ rotationY = 1
    /\ Size(pointers) = 1
    /\ drag.on
    /\ ~drag.done
    /\ ENABLED Tick

\* C32: with gestures enabled the registry holds exactly the pointers that
\* are down: an id enters the registry only by its pointer-down and leaves
\* it only by its pointer-up, every pointer-down registers its id and every
\* pointer-up removes it.
C32_RegistryIsContacts ==
    [][gestureControl =>
           \A id \in PointerIds :
               /\ (id \in Active(pointers') /\ id \notin Active(pointers)) =>
                     \E pt \in Points : HandlePointerDown(id, pt)
               /\ (id \notin Active(pointers') /\ id \in Active(pointers)) =>
                     HandlePointerUp(id)
               /\ (\E pt \in Points : HandlePointerDown(id, pt)) =>
                     id \in Active(pointers')
               /\ HandlePointerUp(id) => id \notin Active(pointers')]_vars

----------------------------------------------------------------------------
(* The mounts of the viewer.                                               *)

\* the calls of onTrackingStatusChange made by mount g, in a list of calls
ReportsOf(calls, g) == {n \in 1..Len(calls) : calls[n].mount = g}

\* C33: in every mount of the viewer isTracking starts false and, once
\* true, stays true; the status callback is called with 'found' only and at
\* most once per mount; a mount whose camera request failed never has
\* isTracking true and never reports 'found'.
C33_TrackingForward ==
    [][/\ \A g \in Mounts : sessions[g].isTracking => sessions'[g].isTracking
       /\ \A g \in 1..Len(sessions') :
             /\ g \notin Mounts => ~sessions'[g].isTracking
             /\ Cardinality(ReportsOf(reported', g)) <= 1
             /\ sessions'[g].camera = "denied" =>
                   /\ ~sessions'[g].isTracking
                   /\ ReportsOf(reported', g) = {}
                   /\ sessions'[g].timers = {}
       /\ \A n \in 1..Len(reported') : reported'[n].status = "found"
       /\ \A g \in Mounts :
             sessions[g].camera = "requested" => ~sessions[g].isTracking]_vars

\* one mount whose camera request failed and showed the error, and a later
\* mount that found tracking and reported it once
C33_Witness ==
    \E g, h \in Mounts :
        /\ g < h
        /\ sessions[g].cameraError
        /\ ~sessions[g].isTracking
        /\ sessions[h].isTracking
        /\ sessions[h].mounted
        /\ reported = <<[status |-> "found", mount |-> h, mounted |-> TRUE]>>

\* C34: the status callback is never called on behalf of a viewer that has
\* been unmounted: every call so far was made by a timer of a viewer that
\* was mounted when the timer fired.
C34_NothingAfterUnmount ==
    \A n \in 1..Len(reported) : reported[n].mounted

\* C35: once a viewer is unmounted, its camera request answered and its
\* timers run out, so that nothing more will happen on its behalf, the
\* stream it acquired has been stopped.
C35_StreamStopped ==
    \A g \in Mounts :
        (/\ ~sessions[g].mounted
         /\ sessions[g].camera # "requested"
         /\ sessions[g].timers = {}) =>
            sessions[g].stream # "live"

\* C38: in the staged viewer initStage moves from 0 to 1 and from 1 to 2
\* and in no other way, and isTracking is true only with initStage 2.
C38_StagesInOrder ==
    [][staged =>
           /\ \A g \in Mounts :
                 \/ sessions'[g].initStage = sessions[g].initStage
                 \/ sessions'[g].initStage = sessions[g].initStage + 1
           /\ \A g \in 1..Len(sessions') :
                 /\ sessions'[g].initStage \in 0..2
                 /\ g \notin Mounts => sessions'[g].initStage = 0
                 /\ sessions'[g].isTracking => sessions'[g].initStage = 2]_vars

\* a staged viewer that went through stage 1 and stage 2 and is tracking;
\* an earlier mount was closed at stage 1
C38_Witness ==
    /\ staged
    /\ \E g, h \in Mounts :
          /\ g < h
          /\ sessions[g].initStage = 1
          /\ ~sessions[g].mounted
          /\ sessions[h].initStage = 2
          /\ sessions[h].isTracking
          /\ sessions[h].timers = {}

----------------------------------------------------------------------------
(* The project list of the application.                                    *)

\* the indices of a list that hold the id
Holding(list, id) == {i \in 1..Len(list) : list[i].id = id}

\* no id is held twice
UniqueIds(list) == \A i, j \in 1..Len(list) : list[i].id = list[j].id => i = j

\* the entries of a list under other ids
Others(list, id) == {list[i] : i \in (1..Len(list)) \ Holding(list, id)}

\* C36: a commit delivered to the application leaves the active experience
\* with the committed transform and nothing else changed, the list holds
\* that experience under its id exactly once, the entries under other ids
\* are the ones it held before, in as many places; and the ids of the list
\* are unique before and after every save, delete and commit.
C36_CommitUpserts ==
    [][/\ UniqueIds(experiences) /\ UniqueIds(experiences')
       /\ \A t \in Transforms : SpatialUpdate(t) =>
             /\ active # <<>>
             /\ active' = <<[active[1] EXCEPT !.transform = t]>>
             /\ Cardinality(Holding(experiences', active[1].id)) = 1
             /\ \A i \in Holding(experiences', active[1].id) :
                   experiences'[i] = active'[1]
             /\ Others(experiences', active[1].id) = Others(experiences, active[1].id)
             /\ Len(experiences') = Len(experiences)]_vars

\* a commit has moved the first of two projects, the second is as it was
\* saved, and the list has been written
C36_Witness ==
    /\ view = "viewer"
    /\ Len(experiences) = 2
    /\ active = <<experiences[1]>>
    /\ experiences[1] = [id |-> 1, name |-> "a", transform |-> MovedTransform]
    /\ experiences[2] = [id |-> 2, name |-> "b", transform |-> DefaultTransform]
    /\ wrote = <<[loaded |-> TRUE, value |-> Stringify(experiences)]>>
    /\ storage = Stringify(experiences)

\* C37: every write to the storage is made by a render whose isLoaded is
\* true, the storage changes in no step that leaves isLoaded false, and a
\* non-empty list found in the storage is still there when the load has
\* completed.
C37_WritesAfterLoad ==
    [][/\ \A n \in 1..Len(wrote') : wrote'[n].loaded
       /\ storage' # storage => isLoaded'
       /\ (~isLoaded /\ storage.kind = "array" /\ storage.items # <<>>) =>
             storage' = storage]_vars

\* the load has just completed on a stored list of two projects: the list
\* is the application's, and the write of the re-render has left it stored
C37_Witness ==
    /\ boot.phase = "loaded"
    /\ isLoaded
    /\ Len(experiences) = 2
    /\ experiences[1] = [id |-> 2, name |-> "b", transform |-> MovedTransform]
    /\ storage = Stringify(experiences)
    /\ wrote = <<[loaded |-> TRUE, value |-> storage]>>
    /\ view = "dashboard" /\ active = <<>>

============================================================================
